---- MODULE Spec2Model ----
(***************************************************************************)
(* A model of parallel_weather/mpi_fetch.py (the SPMD fetch job run under  *)
(* mpiexec) and of the part of parallel_weather/app.py that reads the      *)
(* job's output file.                                                      *)
(*                                                                         *)
(* Python ints are unbounded, so no width is modelled.  Python floats that *)
(* carry weather metrics are modelled as integers in hundredths of a unit. *)
(* An optional value is a sequence of length at most one: Python None is   *)
(* None (the empty sequence) and a present value x is Some(x).             *)
(***************************************************************************)
EXTENDS Integers, Sequences, FiniteSets, TLC

VARIABLES
    \* ---- partition_indices driver (mpi_fetch.py:197-198, one call per rank)
    p_total,        \* len(districts)
    p_parts,        \* comm.Get_size()
    p_slices,       \* rank -> <<start, end>> for the ranks that have called
    \* ---- split_tasks driver (mpi_fetch.py:295-296)
    s_tasks,        \* the task list handed to split_tasks
    s_workers,      \* the worker count handed to split_tasks
    s_chunks,       \* None before the call, then the returned list of lists
    \* ---- one run of mpi_fetch.py under mpiexec -n size
    size,           \* comm.Get_size()
    DISTRICTS,      \* tn_districts.DISTRICTS, the registry
    api_key,        \* TRUE iff OPENWEATHER_API_KEY is set and non-empty
    hist_script,    \* what the provider's timemachine endpoint answers per day
    pc,             \* rank -> position in main()
    exit_status,    \* rank -> None while running, Some(code) once exited
    districts,      \* rank -> None before bcast returns, Some(list) after
    local_slice,    \* rank -> districts[start:end]
    local_current,  \* rank -> list of phase-one records
    flat_current,   \* rank 0: the sorted, flattened gathered_current
    history_tasks,  \* rank 0: the planned historical tasks
    forecast_tasks, \* rank 0: the planned forecast tasks
    chunks_hist,    \* rank 0: None, then Some(split_tasks(history_tasks, size))
    chunks_fc,      \* rank 0: None, then Some(split_tasks(forecast_tasks, size))
    local_hist_tasks,   \* rank -> the scattered chunk of historical tasks
    local_fc_tasks,     \* rank -> the scattered chunk of forecast tasks
    local_hist_results, \* rank -> list of historical records
    local_fc_results,   \* rank -> list of forecast records
    fc_done,        \* rank -> number of forecast tasks processed
    out_obj,        \* rank 0: None, then Some(the assembled snapshot)
    data_dir,       \* TRUE iff DATA_DIR exists
    file,           \* the content of OUTPUT_PATH
    fs_log,         \* the file-system mutations so far, with the rank issuing them
    requests,       \* session.get calls so far, per endpoint
    reader_saw,     \* what the last api_data read of OUTPUT_PATH returned
    \* ---- the web server of app.py: one process, one thread per request
    req_kind,       \* request -> "data" (GET /api/data) or "refresh" (POST /api/refresh)
    thread_pc,      \* thread -> position; a thread is a request's handler
                    \* <<"h", i>> or the _bg_refresh thread it started <<"bg", i>>
    response,       \* request -> None while handled, then Some(answer)
    refresh_lock    \* _refresh_lock: None when free, Some(thread) when held

fnvars == <<p_total, p_parts, p_slices, s_tasks, s_workers, s_chunks>>
inputvars == <<size, DISTRICTS, api_key, hist_script>>
p1vars == <<districts, local_slice, local_current>>
planvars == <<flat_current, history_tasks, forecast_tasks, chunks_hist, chunks_fc>>
p2vars == <<local_hist_tasks, local_fc_tasks, local_hist_results,
            local_fc_results, fc_done>>
outvars == <<out_obj, data_dir, file, fs_log>>
runvars == <<inputvars, pc, exit_status, p1vars, planvars, p2vars, outvars,
             requests, reader_saw>>
appvars == <<req_kind, thread_pc, response, refresh_lock>>
vars == <<fnvars, runvars, appvars>>

None == <<>>
Some(x) == <<x>>
Get(o) == o[1]

\* ------------------------------------------------------------------ bounds
MaxTotal == 7       \* partition driver: totals 0..MaxTotal (and 38)
MaxParts == 5       \* partition driver: worker counts 1..MaxParts
MaxTasks == 4       \* split driver: task lists of length 0..MaxTasks
MaxWorkers == 3     \* split driver: worker counts 1..MaxWorkers
MaxN == 2           \* the run: registries of 0..MaxN districts
MaxP == 2           \* the run: 1..MaxP ranks
MaxLoad == 4        \* the run: ranks * districts <= MaxLoad
MaxRequests == 3    \* the web server: requests 1..MaxRequests

\* list_past_days(7) and list_next_days(7), lines 245-246
NumDays == 7

\* ------------------------------------------------------------- helpers
Min(a, b) == IF a < b THEN a ELSE b

\* F(v) with v evaluated once.  An operator's argument is an expression that
\* is evaluated again at every place the body reads it; a bound variable
\* holds a value.
Bind(v, F(_)) == CHOOSE y \in {F(x) : x \in {v}} : TRUE

SeqsUpTo(S, n) == UNION {[1..k -> S] : k \in 0..n}

\* Python list slicing xs[start:end] for 0 <= start, with 0-based indices.
PySlice(xs, start, end) ==
    LET e == Min(end, Len(xs))
    IN  IF start >= e THEN <<>> ELSE SubSeq(xs, start + 1, e)

\* ------------------------------------------------- partition_indices
\* A plausible slip: the offset of the slices after the first `remainder`
\* forgets that the earlier slices were one item longer.
partition_indices_mut(total, parts, index) ==
    LET base == total \div parts
        remainder == total % parts
    IN  IF index < remainder
        THEN <<index * (base + 1), Min(index * (base + 1) + base + 1, total)>>
        ELSE <<index * base, Min(index * base + base, total)>>

partition_indices(total, parts, index) ==
    LET base == total \div parts
        remainder == total % parts
    IN  IF index < remainder
        THEN LET start == index * (base + 1)
                 end == start + base + 1
             IN  <<start, Min(end, total)>>
        ELSE LET start == remainder * (base + 1) + (index - remainder) * base
                 end == start + base
             IN  <<start, Min(end, total)>>

\* ------------------------------------------------------- split_tasks
\* chunks[i % workers].append(t) for i, t in enumerate(tasks): the chunk of
\* worker k is the subsequence of tasks at the 0-based indices congruent to
\* k modulo workers, in list order.
RECURSIVE split_from(_, _, _, _)
split_from(tasks, workers, i, chunks) ==
    IF i >= Len(tasks) THEN chunks
    ELSE split_from(tasks, workers, i + 1,
            [chunks EXCEPT ![i % workers] = Append(@, tasks[i + 1])])

\* A plausible slip: block-wise instead of modulo assignment.
split_tasks_mut(tasks, workers) ==
    [k \in 0..(workers - 1) |->
        PySlice(tasks, partition_indices(Len(tasks), workers, k)[1],
                       partition_indices(Len(tasks), workers, k)[2])]

split_tasks(tasks, workers) ==
    split_from(tasks, workers, 0, [k \in 0..(workers - 1) |-> <<>>])

\* ================================================================ the run
\* ------------------------------------------------------- run helpers
Ranks == 0..(size - 1)

RECURSIVE Flatten(_, _, _)
\* parts[0] + parts[1] + ... + parts[n-1], from rank k on
Flatten(parts, k, n) ==
    IF k >= n THEN <<>> ELSE parts[k] \o Flatten(parts, k + 1, n)

\* list.sort(key=lambda x: x[field]): a stable sort.  Each element goes
\* behind the already placed elements whose key is not greater than its own.
InsertByField(sorted, x, field) ==
    Bind(sorted, LAMBDA s :
        LET le == {i \in 1..Len(s) : s[i][field] <= x[field]}
            pos == IF le = {} THEN 0 ELSE CHOOSE i \in le : \A j \in le : j <= i
        IN  SubSeq(s, 1, pos) \o <<x>> \o SubSeq(s, pos + 1, Len(s)))

RECURSIVE SortFrom(_, _, _, _)
SortFrom(xs, i, acc, field) ==
    IF i > Len(xs) THEN acc
    ELSE SortFrom(xs, i + 1, InsertByField(acc, xs[i], field), field)

SortByField(xs, field) == SortFrom(xs, 1, <<>>, field)

\* dict.get(key) of a record: None when the key is absent
PyGet(rec, key) == IF key \in DOMAIN rec THEN rec[key] ELSE None

\* what a call returns: a value, or an exception with its str()
Raise(msg) == [raised |-> TRUE, exc |-> msg, val |-> None]
Return(v) == [raised |-> FALSE, exc |-> "", val |-> Some(v)]

\* str(exc) of a failed request (network error, timeout, non-2xx status,
\* undecodable body): one representative message
FetchError == "500 Server Error"
NameErrorMsg == "name 'train_sum' is not defined"
MissingCoordMsg == "Missing coordinates from current weather phase"

NullMetrics ==
    [temperature_c |-> None, humidity_pct |-> None,
     wind_speed_ms |-> None, rainfall_mm |-> None]

\* ------------------------------------------------------- the registry
\* A district's name is modelled by its rank in alphabetical order, which is
\* all that the sort of line 241 reads of it.
Location(i) == [district |-> i, query |-> i]

Registries(n) ==
    {[i \in 1..n |-> Location(i)], [i \in 1..n |-> Location(n + 1 - i)]}

\* ------------------------------------------------------ the provider
\* Bodies the current-weather endpoint may answer for a query: a complete
\* one, and one without temperature and wind whose coord lacks "lat".
CurrentPayloads(query) ==
    {[temp |-> Some(2500 + 100 * query), humidity |-> Some(6000),
      speed |-> Some(300), rain_1h |-> None, rain_3h |-> None,
      coord |-> Some([lat |-> Some(1000 + query), lon |-> Some(7000 + query)])],
     [temp |-> None, humidity |-> Some(5000),
      speed |-> None, rain_1h |-> None, rain_3h |-> Some(120),
      coord |-> Some([lat |-> None, lon |-> Some(7000 + query)])]}

\* the outcomes of session.get + raise_for_status + json()
fetch_weather_for_query(query) ==
    {Raise(FetchError)} \cup {Return(p) : p \in CurrentPayloads(query)}

extract_current_metrics_and_coord(payload) ==
    LET rainfall == IF payload.rain_1h # None THEN payload.rain_1h
                    ELSE IF payload.rain_3h # None THEN payload.rain_3h
                    ELSE Some(0)
        metrics == [temperature_c |-> payload.temp,
                    humidity_pct |-> payload.humidity,
                    wind_speed_ms |-> payload.speed,
                    rainfall_mm |-> rainfall]
        coord == payload.coord
    IN  IF coord # None /\ Get(coord).lat # None /\ Get(coord).lon # None
        THEN [metrics |-> metrics, coord |-> coord]
        ELSE [metrics |-> metrics, coord |-> None]

\* Dates are day numbers relative to today (0).  date.isoformat() is
\* zero-padded, so the order of the ISO strings is the order of the days.
list_past_days(num_days) == [k \in 1..num_days |-> k - num_days - 1]

list_next_days(num_days) == [k \in 1..num_days |-> k]

HourlyItems(dt) ==
    <<[temp |-> Some(2000), humidity |-> Some(5000),
       wind_speed |-> Some(200), rain_1h |-> Some(10)],
      [temp |-> Some(2200), humidity |-> Some(5400),
       wind_speed |-> Some(400), rain_1h |-> None]>>

\* Lines 95-125 collect temps, humids, winds and rain_sum; the dict of lines
\* 130-135 then evaluates round(train_sum, 2), a name that is bound nowhere,
\* so every call with a non-empty list raises NameError.
aggregate_hourly_to_daily(hourly_items) ==
    IF hourly_items = <<>> THEN Return(NullMetrics)
    ELSE Raise(NameErrorMsg)

\* the outcome of the timemachine request for day dt, as the provider's
\* script for this run has it
fetch_onecall_timemachine(lat, lon, dt) ==
    IF hist_script[dt] = "raise" THEN Raise(FetchError)
    ELSE IF hist_script[dt] = "empty" THEN aggregate_hourly_to_daily(<<>>)
    ELSE aggregate_hourly_to_daily(HourlyItems(dt))

DailyPayload(i) ==
    [temp_day |-> Some(3000 + 10 * i), humidity |-> Some(7000),
     wind_speed |-> None, rain |-> IF i % 2 = 0 THEN Some(50) ELSE None]

\* how many daily entries a forecast body may hold
FcDayCounts == {2, 8}

\* lines 166-174: one MetricSet per daily entry of the body
NormalizeDaily(d) ==
    [temperature_c |-> d.temp_day, humidity_pct |-> d.humidity,
     wind_speed_ms |-> d.wind_speed,
     rainfall_mm |-> IF d.rain # None THEN d.rain ELSE Some(0)]

fetch_onecall_forecast_daily(lat, lon) ==
    {Raise(FetchError)} \cup
    {Return([i \in 1..k |-> NormalizeDaily(DailyPayload(i))]) : k \in FcDayCounts}

HistKinds == {"raise", "empty", "hourly"}

HistDays == {list_past_days(NumDays)[k] : k \in 1..NumDays}

\* the provider's answers per requested day: the same on every day, or a
\* failure on the oldest day and bodies with and without hourly data after it
HistScripts ==
    {[d \in HistDays |-> k] : k \in HistKinds} \cup
    {[d \in HistDays |->
        IF d = 0 - NumDays THEN "raise"
        ELSE IF d % 2 = 0 THEN "empty" ELSE "hourly"]}

\* ------------------------------------------------ records (lines 204-380)
\* lines 207-231: the phase-one record of one district
current_record(item, rank, resp) ==
    IF resp.raised
    THEN [district |-> item.district, query |-> item.query,
          processor_rank |-> Some(rank), coord |-> None,
          current |-> NullMetrics @@
                      [error |-> Some(resp.exc), processor_rank |-> Some(rank)]]
    ELSE LET mc == extract_current_metrics_and_coord(Get(resp.val))
         IN  [district |-> item.district, query |-> item.query,
              processor_rank |-> Some(rank), coord |-> mc.coord,
              current |-> mc.metrics @@ [processor_rank |-> Some(rank)]]

\* lines 309-340: the record of one historical task
hist_record(t, rank) ==
    LET head == [district |-> t.district, date_iso |-> t.date_iso,
                 processor_rank |-> Some(rank)]
    IN  IF t.lat = None \/ t.lon = None
        THEN head @@ NullMetrics @@ [error |-> Some(MissingCoordMsg)]
        ELSE LET resp == fetch_onecall_timemachine(Get(t.lat), Get(t.lon), t.dt)
             IN  IF resp.raised
                 THEN head @@ NullMetrics @@ [error |-> Some(resp.exc)]
                 ELSE head @@ Get(resp.val)

\* A slip that would emit one record per day of the body instead of one per
\* requested date.
fc_records_mut(t, rank, resp) ==
    LET head(date_iso) == [district |-> t.district, date_iso |-> date_iso,
                           processor_rank |-> Some(rank)]
    IN  IF t.lat = None \/ t.lon = None
        THEN [i \in 1..Len(t.date_isos) |->
                head(t.date_isos[i]) @@ NullMetrics @@
                [error |-> Some(MissingCoordMsg)]]
        ELSE IF resp.raised
        THEN [i \in 1..Len(t.date_isos) |->
                head(t.date_isos[i]) @@ NullMetrics @@
                [error |-> Some(resp.exc)]]
        ELSE LET daily_list == Get(resp.val)
             IN  [i \in 1..Min(Len(t.date_isos), Len(daily_list)) |->
                    head(t.date_isos[i]) @@ daily_list[i]]

\* lines 344-380: the records of one forecast task, one per requested date
fc_records(t, rank, resp) ==
    LET head(date_iso) == [district |-> t.district, date_iso |-> date_iso,
                           processor_rank |-> Some(rank)]
    IN  IF t.lat = None \/ t.lon = None
        THEN [i \in 1..Len(t.date_isos) |->
                head(t.date_isos[i]) @@ NullMetrics @@
                [error |-> Some(MissingCoordMsg)]]
        ELSE IF resp.raised
        THEN [i \in 1..Len(t.date_isos) |->
                head(t.date_isos[i]) @@ NullMetrics @@
                [error |-> Some(resp.exc)]]
        ELSE LET daily_list == Get(resp.val)
             IN  [i \in 1..Len(t.date_isos) |->
                    head(t.date_isos[i]) @@
                    (IF i <= Len(daily_list) THEN daily_list[i]
                     ELSE NullMetrics)]

\* ------------------------------------------------ planning (lines 236-296)
\* the dict comprehension of line 242: the last record of a name wins
district_to_coord(flat, d) ==
    LET at == {i \in 1..Len(flat) : flat[i].district = d}
        last == CHOOSE i \in at : \A j \in at : j <= i
    IN  flat[last].coord

HasCoord(coord) ==
    coord # None /\ Get(coord).lat # None /\ Get(coord).lon # None

\* A slip that would plan a request at (0, 0) for a district without
\* coordinates.
history_tasks_of_mut(r, coord, hist_dates) ==
    [k \in 1..Len(hist_dates) |->
        [district |-> r.district, query |-> r.query,
         lat |-> IF HasCoord(coord) THEN Get(coord).lat ELSE Some(0),
         lon |-> IF HasCoord(coord) THEN Get(coord).lon ELSE Some(0),
         dt |-> hist_dates[k], date_iso |-> hist_dates[k]]]

\* lines 253-261 and 271-279: the historical tasks of one phase-one record
history_tasks_of(r, coord, hist_dates) ==
    [k \in 1..Len(hist_dates) |->
        [district |-> r.district, query |-> r.query,
         lat |-> IF HasCoord(coord) THEN Get(coord).lat ELSE None,
         lon |-> IF HasCoord(coord) THEN Get(coord).lon ELSE None,
         dt |-> hist_dates[k], date_iso |-> hist_dates[k]]]

\* lines 262-268 and 280-286: the forecast task of one phase-one record
forecast_task_of(r, coord, fc_dates) ==
    [district |-> r.district, query |-> r.query,
     lat |-> IF HasCoord(coord) THEN Get(coord).lat ELSE None,
     lon |-> IF HasCoord(coord) THEN Get(coord).lon ELSE None,
     date_isos |-> fc_dates]

\* A slip that would emit the locations last to first.
RECURSIVE plan_history_mut(_, _, _)
plan_history_mut(flat, i, hist_dates) ==
    IF i > Len(flat) THEN <<>>
    ELSE plan_history_mut(flat, i + 1, hist_dates)
         \o history_tasks_of(flat[i], district_to_coord(flat, flat[i].district),
                             hist_dates)

\* lines 249-286: the loop over flat_current, historical tasks
RECURSIVE plan_history(_, _, _)
plan_history(flat, i, hist_dates) ==
    IF i > Len(flat) THEN <<>>
    ELSE history_tasks_of(flat[i], district_to_coord(flat, flat[i].district),
                          hist_dates)
         \o plan_history(flat, i + 1, hist_dates)

plan_forecast(flat, fc_dates) ==
    [i \in 1..Len(flat) |->
        forecast_task_of(flat[i], district_to_coord(flat, flat[i].district),
                         fc_dates)]

\* A slip that would keep only the coordinator's own phase-one records.
flatten_and_sort_current_mut(gathered_current, n) ==
    SortByField(gathered_current[0], "district")

\* lines 238-241
flatten_and_sort_current(gathered_current, n) ==
    SortByField(Flatten(gathered_current, 0, n), "district")

\* ------------------------------------------------ assembly (lines 385-523)
Positions(map, d) == {i \in 1..Len(map) : map[i].district = d}

Placeholder(d) ==
    [district |-> d, query |-> None, coord |-> None,
     current |-> NullMetrics @@ [processor_rank |-> None],
     history |-> <<>>, forecast |-> <<>>]

\* A slip that would leave a district whose current fetch gave no
\* coordinates to the placeholder branch of the later loops.
put_current_mut(map, r) ==
    LET entry == [district |-> r.district, query |-> Some(r.query),
                  coord |-> r.coord, current |-> r.current,
                  history |-> <<>>, forecast |-> <<>>]
        at == Positions(map, r.district)
    IN  IF r.coord = None THEN map
        ELSE IF at = {} THEN Append(map, entry)
        ELSE [map EXCEPT ![CHOOSE i \in at : TRUE] = entry]

\* lines 398-406: district_map[r["district"]] = {...}; a dict keeps the
\* position of a key that is assigned again
put_current(map, r) ==
    Bind(map, LAMBDA m :
        LET entry == [district |-> r.district, query |-> Some(r.query),
                      coord |-> r.coord, current |-> r.current,
                      history |-> <<>>, forecast |-> <<>>]
            at == Positions(m, r.district)
        IN  IF at = {} THEN Append(m, entry)
            ELSE [m EXCEPT ![CHOOSE i \in at : TRUE] = entry])

\* lines 423-431 and 448-456
snapshot_record(h) ==
    [date |-> h.date_iso,
     temperature_c |-> PyGet(h, "temperature_c"),
     humidity_pct |-> PyGet(h, "humidity_pct"),
     wind_speed_ms |-> PyGet(h, "wind_speed_ms"),
     rainfall_mm |-> PyGet(h, "rainfall_mm"),
     processor_rank |-> PyGet(h, "processor_rank"),
     error |-> PyGet(h, "error")]

\* lines 409-431 (field "history") and 434-456 (field "forecast")
add_record(map, h, field) ==
    Bind(map, LAMBDA m :
        LET at == Positions(m, h.district)
        IN  IF at = {}
            THEN Append(m, [Placeholder(h.district) EXCEPT
                                ![field] = <<snapshot_record(h)>>])
            ELSE [m EXCEPT ![CHOOSE i \in at : TRUE][field] =
                                Append(@, snapshot_record(h))])

RECURSIVE put_all_current(_, _, _)
put_all_current(map, flat, i) ==
    IF i > Len(flat) THEN map
    ELSE put_all_current(put_current(map, flat[i]), flat, i + 1)

RECURSIVE add_all_records(_, _, _, _)
add_all_records(map, recs, i, field) ==
    IF i > Len(recs) THEN map
    ELSE add_all_records(add_record(map, recs[i], field), recs, i + 1, field)

\* A slip that would leave the lists in the order of the gathered parts.
sort_lists_mut(map) == map

\* lines 459-461
sort_lists(map) ==
    Bind(map, LAMBDA m :
        [i \in 1..Len(m) |->
            [m[i] EXCEPT !.history = SortByField(@, "date"),
                         !.forecast = SortByField(@, "date")]])

\* lines 388-461: the ordered values of district_map
build_district_map(flat, gathered_hist, gathered_fc, n) ==
    LET flat_hist == Flatten(gathered_hist, 0, n)
        flat_fc == Flatten(gathered_fc, 0, n)
        m1 == put_all_current(<<>>, flat, 1)
        m2 == add_all_records(m1, flat_hist, 1, "history")
        m3 == add_all_records(m2, flat_fc, 1, "forecast")
    IN  sort_lists(m3)

RECURSIVE ConcatField(_, _, _)
ConcatField(map, i, field) ==
    IF i > Len(map) THEN <<>>
    ELSE map[i][field] \o ConcatField(map, i + 1, field)

\* sorted({h["date"] for h in items})
SortedDates(items) ==
    LET ds == {items[i].date : i \in 1..Len(items)}
    IN  SortByField([k \in 1..Cardinality(ds) |->
            [date |-> CHOOSE d \in ds :
                Cardinality({e \in ds : e < d}) = k - 1]], "date")

RECURSIVE SumSeq(_, _)
SumSeq(xs, i) == IF i > Len(xs) THEN 0 ELSE Get(xs[i]) + SumSeq(xs, i + 1)

\* round(s / n, 2) on values held in hundredths: the nearest hundredth, a
\* tie going to the even one
RoundDiv(s, n) ==
    LET q == s \div n
        r == s % n
    IN  IF 2 * r < n THEN q
        ELSE IF 2 * r > n THEN q + 1
        ELSE IF q % 2 = 0 THEN q ELSE q + 1

IsNumber(v) == v # None

\* A slip that would count the null values as zeros.
avg_mut(values) ==
    LET valid == SelectSeq(values, IsNumber)
    IN  IF valid = <<>> THEN None
        ELSE Some(RoundDiv(SumSeq(valid, 1), Len(values)))

\* lines 464-466
avg(values) ==
    LET valid == SelectSeq(values, IsNumber)
    IN  IF valid = <<>> THEN None
        ELSE Some(RoundDiv(SumSeq(valid, 1), Len(valid)))

\* lines 473-478, 479-484, 485-490: the averages of one phase
averages_of(items) ==
    [temperature_c |-> avg([i \in 1..Len(items) |-> PyGet(items[i], "temperature_c")]),
     humidity_pct |-> avg([i \in 1..Len(items) |-> PyGet(items[i], "humidity_pct")]),
     wind_speed_ms |-> avg([i \in 1..Len(items) |-> PyGet(items[i], "wind_speed_ms")]),
     rainfall_mm |-> avg([i \in 1..Len(items) |-> PyGet(items[i], "rainfall_mm")])]

\* A slip that would record which ranks took part instead of how much.
count_by_rank_mut(items) ==
    LET keys == {PyGet(items[i], "processor_rank") : i \in 1..Len(items)}
    IN  [k \in keys |-> 1]

\* lines 494-500: str(rank) -> count.  str() is one-to-one on ranks and
\* None, so a key is modelled by the value it is the string of.
count_by_rank(items) ==
    LET keys == {PyGet(items[i], "processor_rank") : i \in 1..Len(items)}
    IN  [k \in keys |->
            Cardinality({i \in 1..Len(items) :
                PyGet(items[i], "processor_rank") = k})]

\* lines 468-523, without last_updated (the clock)
assemble(flat, gathered_hist, gathered_fc, total, n) ==
    Bind(build_district_map(flat, gathered_hist, gathered_fc, n), LAMBDA map :
    Bind([i \in 1..Len(map) |-> map[i].current], LAMBDA current_list :
    Bind(ConcatField(map, 1, "history"), LAMBDA history_list :
    Bind(ConcatField(map, 1, "forecast"), LAMBDA forecast_list :
    Bind(SortedDates(history_list), LAMBDA hd :
    Bind(SortedDates(forecast_list), LAMBDA fd :
        [districts |-> map,
         averages |-> [current |-> averages_of(current_list),
                       history |-> averages_of(history_list),
                       forecast |-> averages_of(forecast_list)],
         meta |-> [total_districts |-> total, mpi_processes |-> n,
                   history_dates |-> [k \in 1..Len(hd) |-> hd[k].date],
                   forecast_dates |-> [k \in 1..Len(fd) |-> fd[k].date],
                   workload |-> [current |-> count_by_rank(current_list),
                                 history |-> count_by_rank(history_list),
                                 forecast |-> count_by_rank(forecast_list)]]]))))))

\* ------------------------------------------------------ positions
\* The positions of main(), in program order.  A rank "in" a collective has
\* called it (has contributed) and has not yet returned from it.
PcOrder ==
    <<"start", "in_bcast", "phase1", "in_gather_cur", "in_scatter_hist",
      "in_scatter_fc", "phase2", "in_gather_hist", "in_gather_fc",
      "assemble", "open", "dump", "done">>

\* "exited" (sys.exit(2) of line 187) is before every collective
Idx(p) == IF p = "exited" THEN 0 ELSE CHOOSE i \in 1..Len(PcOrder) : PcOrder[i] = p

Reached(r, p) == Idx(pc[r]) >= Idx(p)
Passed(r, p) == Idx(pc[r]) > Idx(p)

\* mpi4py's collectives complete for a rank as soon as that rank's own part
\* is done: bcast and scatter return on a non-root rank once the root's data
\* has arrived, and on the root once the data is sent; gather returns on the
\* root once every rank's data has arrived, and on a non-root rank once its
\* data is sent.
RootHasCalled(c) == Reached(0, c)

\* A slip that would complete a gather with the first contribution.
AllHaveCalled_mut(c) == \E v \in Ranks : Reached(v, c)

AllHaveCalled(c) == \A v \in Ranks : Reached(v, c)

\* A slip that would let the root return from a gather early.
gather_ready_mut(r, c) == TRUE

gather_ready(r, c) == r # 0 \/ AllHaveCalled(c)

scatter_ready(r, c) == r = 0 \/ RootHasCalled(c)

\* the `if rank == 0:` of line 385
writes_snapshot_mut(rank) == TRUE

writes_snapshot(rank) == rank = 0

\* ------------------------------------------------------------ Init
\* the drivers of the pure helpers are not running
FnIdle ==
    /\ p_total = 0 /\ p_parts = 1 /\ p_slices = <<>>
    /\ s_tasks = <<>> /\ s_workers = 1 /\ s_chunks = None

\* the web server is not running
AppIdle ==
    /\ req_kind = <<>> /\ thread_pc = <<>> /\ response = <<>>
    /\ refresh_lock = None

RunIdle ==
    /\ size = 1 /\ DISTRICTS = <<>> /\ api_key = FALSE
    /\ hist_script = [d \in HistDays |-> "raise"]
    /\ pc = [r \in 0..0 |-> "exited"]
    /\ exit_status = [r \in 0..0 |-> Some(2)]
    /\ districts = [r \in 0..0 |-> None]
    /\ local_slice = [r \in 0..0 |-> <<>>]
    /\ local_current = [r \in 0..0 |-> <<>>]
    /\ flat_current = <<>> /\ history_tasks = <<>> /\ forecast_tasks = <<>>
    /\ chunks_hist = None /\ chunks_fc = None
    /\ local_hist_tasks = [r \in 0..0 |-> <<>>]
    /\ local_fc_tasks = [r \in 0..0 |-> <<>>]
    /\ local_hist_results = [r \in 0..0 |-> <<>>]
    /\ local_fc_results = [r \in 0..0 |-> <<>>]
    /\ fc_done = [r \in 0..0 |-> 0]
    /\ out_obj = None /\ data_dir = FALSE
    /\ file = [state |-> "absent", doc |-> None]
    /\ fs_log = <<>>
    /\ requests = [current |-> 0, hist |-> 0, fc |-> 0]
    /\ reader_saw = "nothing"

RunInit ==
    /\ size \in 1..MaxP
    /\ \E n \in 0..MaxN : size * n <= MaxLoad /\ DISTRICTS \in Registries(n)
    /\ api_key \in BOOLEAN
    /\ hist_script \in HistScripts
    /\ pc = [r \in Ranks |-> "start"]
    /\ exit_status = [r \in Ranks |-> None]
    /\ districts = [r \in Ranks |-> None]
    /\ local_slice = [r \in Ranks |-> <<>>]
    /\ local_current = [r \in Ranks |-> <<>>]
    /\ flat_current = <<>> /\ history_tasks = <<>> /\ forecast_tasks = <<>>
    /\ chunks_hist = None /\ chunks_fc = None
    /\ local_hist_tasks = [r \in Ranks |-> <<>>]
    /\ local_fc_tasks = [r \in Ranks |-> <<>>]
    /\ local_hist_results = [r \in Ranks |-> <<>>]
    /\ local_fc_results = [r \in Ranks |-> <<>>]
    /\ fc_done = [r \in Ranks |-> 0]
    /\ out_obj = None
    /\ \/ data_dir = FALSE /\ file = [state |-> "absent", doc |-> None]
       \/ data_dir = TRUE /\ file = [state |-> "old", doc |-> None]
    /\ fs_log = <<>>
    /\ requests = [current |-> 0, hist |-> 0, fc |-> 0]
    /\ reader_saw = "nothing"

Init == RunInit /\ FnIdle /\ AppIdle

\* ---------------------------------------------------------- actions
\* A slip that would check the credential on rank 0 only.
Start_mut(r) ==
    /\ pc[r] = "start"
    /\ IF api_key \/ r # 0
       THEN /\ pc' = [pc EXCEPT ![r] = "in_bcast"]
            /\ UNCHANGED exit_status
       ELSE /\ pc' = [pc EXCEPT ![r] = "exited"]
            /\ exit_status' = [exit_status EXCEPT ![r] = Some(2)]
    /\ UNCHANGED <<inputvars, p1vars, planvars, p2vars, outvars, requests,
                   reader_saw, fnvars, appvars>>

\* lines 183-194: the credential check, then the call of bcast
Start(r) ==
    /\ pc[r] = "start"
    /\ IF api_key
       THEN /\ pc' = [pc EXCEPT ![r] = "in_bcast"]
            /\ UNCHANGED exit_status
       ELSE /\ pc' = [pc EXCEPT ![r] = "exited"]
            /\ exit_status' = [exit_status EXCEPT ![r] = Some(2)]
    /\ UNCHANGED <<inputvars, p1vars, planvars, p2vars, outvars, requests,
                   reader_saw, fnvars, appvars>>

\* lines 194-202: bcast returns; the rank cuts its slice
LeaveBcast(r) ==
    /\ pc[r] = "in_bcast"
    /\ scatter_ready(r, "in_bcast")
    /\ LET total == Len(DISTRICTS)
           se == partition_indices(total, size, r)
       IN  /\ districts' = [districts EXCEPT ![r] = Some(DISTRICTS)]
           /\ local_slice' = [local_slice EXCEPT ![r] = PySlice(DISTRICTS, se[1], se[2])]
    /\ pc' = [pc EXCEPT ![r] = "phase1"]
    /\ UNCHANGED <<inputvars, exit_status, local_current, planvars, p2vars,
                   outvars, requests, reader_saw, fnvars, appvars>>

\* lines 204-231: one iteration of the phase-one loop
FetchCurrent(r) ==
    /\ pc[r] = "phase1"
    /\ Len(local_current[r]) < Len(local_slice[r])
    /\ LET item == local_slice[r][Len(local_current[r]) + 1]
       IN  \E resp \in fetch_weather_for_query(item.query) :
              local_current' = [local_current EXCEPT
                                  ![r] = Append(@, current_record(item, r, resp))]
    /\ requests' = [requests EXCEPT !.current = @ + 1]
    /\ UNCHANGED <<inputvars, pc, exit_status, districts, local_slice, planvars,
                   p2vars, outvars, reader_saw, fnvars, appvars>>

\* A slip that would leave the loop at the first failed fetch.
EnterGatherCurrent_mut(r) ==
    /\ pc[r] = "phase1"
    /\ \/ Len(local_current[r]) = Len(local_slice[r])
       \/ /\ local_current[r] # <<>>
          /\ local_current[r][Len(local_current[r])].coord = None
    /\ pc' = [pc EXCEPT ![r] = "in_gather_cur"]
    /\ UNCHANGED <<inputvars, exit_status, p1vars, planvars, p2vars, outvars,
                   requests, reader_saw, fnvars, appvars>>

\* line 233: the loop is over, the rank calls gather
EnterGatherCurrent(r) ==
    /\ pc[r] = "phase1"
    /\ Len(local_current[r]) = Len(local_slice[r])
    /\ pc' = [pc EXCEPT ![r] = "in_gather_cur"]
    /\ UNCHANGED <<inputvars, exit_status, p1vars, planvars, p2vars, outvars,
                   requests, reader_saw, fnvars, appvars>>

\* lines 233-296 and 304 on rank 0: gather returns, the tasks are planned
\* and split, scatter is called
RootPlan(r) ==
    /\ r = 0
    /\ pc[r] = "in_gather_cur"
    /\ gather_ready(r, "in_gather_cur")
    /\ \E flat \in {flatten_and_sort_current(local_current, size)} :
       \E ht \in {plan_history(flat, 1, list_past_days(NumDays))} :
       \E ft \in {plan_forecast(flat, list_next_days(NumDays))} :
           /\ flat_current' = flat
           /\ history_tasks' = ht
           /\ forecast_tasks' = ft
           /\ chunks_hist' = Some(split_tasks(ht, size))
           /\ chunks_fc' = Some(split_tasks(ft, size))
    /\ pc' = [pc EXCEPT ![r] = "in_scatter_hist"]
    /\ UNCHANGED <<inputvars, exit_status, p1vars, p2vars, outvars, requests,
                   reader_saw, fnvars, appvars>>

\* lines 233, 297-304 on the other ranks
WorkerLeaveGatherCurrent(r) ==
    /\ r # 0
    /\ pc[r] = "in_gather_cur"
    /\ gather_ready(r, "in_gather_cur")
    /\ pc' = [pc EXCEPT ![r] = "in_scatter_hist"]
    /\ UNCHANGED <<inputvars, exit_status, p1vars, planvars, p2vars, outvars,
                   requests, reader_saw, fnvars, appvars>>

\* lines 304-305: the first scatter returns, the second is called
LeaveScatterHist(r) ==
    /\ pc[r] = "in_scatter_hist"
    /\ scatter_ready(r, "in_scatter_hist")
    /\ local_hist_tasks' = [local_hist_tasks EXCEPT ![r] = Get(chunks_hist)[r]]
    /\ pc' = [pc EXCEPT ![r] = "in_scatter_fc"]
    /\ UNCHANGED <<inputvars, exit_status, p1vars, planvars, local_fc_tasks,
                   local_hist_results, local_fc_results, fc_done, outvars,
                   requests, reader_saw, fnvars, appvars>>

\* line 305: the second scatter returns
LeaveScatterFc(r) ==
    /\ pc[r] = "in_scatter_fc"
    /\ scatter_ready(r, "in_scatter_fc")
    /\ local_fc_tasks' = [local_fc_tasks EXCEPT ![r] = Get(chunks_fc)[r]]
    /\ pc' = [pc EXCEPT ![r] = "phase2"]
    /\ UNCHANGED <<inputvars, exit_status, p1vars, planvars, local_hist_tasks,
                   local_hist_results, local_fc_results, fc_done, outvars,
                   requests, reader_saw, fnvars, appvars>>

\* A slip that would send the request whatever the coordinates are.
TaskHasCoord_mut(t) == TRUE

\* lines 310 and 346: the test "lat is None or lon is None", negated
TaskHasCoord(t) == t.lat # None /\ t.lon # None

\* lines 309-340: one iteration of the historical loop
FetchHist(r) ==
    /\ pc[r] = "phase2"
    /\ Len(local_hist_results[r]) < Len(local_hist_tasks[r])
    /\ LET t == local_hist_tasks[r][Len(local_hist_results[r]) + 1]
       IN  /\ local_hist_results' = [local_hist_results EXCEPT
                                       ![r] = Append(@, hist_record(t, r))]
           /\ requests' = [requests EXCEPT
                             !.hist = @ + (IF TaskHasCoord(t) THEN 1 ELSE 0)]
    /\ UNCHANGED <<inputvars, pc, exit_status, p1vars, planvars, local_hist_tasks,
                   local_fc_tasks, local_fc_results, fc_done, outvars,
                   reader_saw, fnvars, appvars>>

\* lines 344-380: one iteration of the forecast loop
FetchForecast(r) ==
    /\ pc[r] = "phase2"
    /\ Len(local_hist_results[r]) = Len(local_hist_tasks[r])
    /\ fc_done[r] < Len(local_fc_tasks[r])
    /\ LET t == local_fc_tasks[r][fc_done[r] + 1]
       IN  /\ \E resp \in (IF TaskHasCoord(t)
                           THEN fetch_onecall_forecast_daily(Get(t.lat), Get(t.lon))
                           ELSE {Raise("")}) :
                local_fc_results' = [local_fc_results EXCEPT
                                       ![r] = @ \o fc_records(t, r, resp)]
           /\ requests' = [requests EXCEPT
                             !.fc = @ + (IF TaskHasCoord(t) THEN 1 ELSE 0)]
    /\ fc_done' = [fc_done EXCEPT ![r] = @ + 1]
    /\ UNCHANGED <<inputvars, pc, exit_status, p1vars, planvars, local_hist_tasks,
                   local_fc_tasks, local_hist_results, outvars, reader_saw, fnvars, appvars>>

\* A slip that would let a rank without tasks stay out of the second gather.
EnterGatherHist_mut(r) ==
    /\ pc[r] = "phase2"
    /\ local_hist_tasks[r] # <<>>
    /\ Len(local_hist_results[r]) = Len(local_hist_tasks[r])
    /\ fc_done[r] = Len(local_fc_tasks[r])
    /\ pc' = [pc EXCEPT ![r] = "in_gather_hist"]
    /\ UNCHANGED <<inputvars, exit_status, p1vars, planvars, p2vars, outvars,
                   requests, reader_saw, fnvars, appvars>>

\* line 382: both loops are over, the rank calls the second gather
EnterGatherHist(r) ==
    /\ pc[r] = "phase2"
    /\ Len(local_hist_results[r]) = Len(local_hist_tasks[r])
    /\ fc_done[r] = Len(local_fc_tasks[r])
    /\ pc' = [pc EXCEPT ![r] = "in_gather_hist"]
    /\ UNCHANGED <<inputvars, exit_status, p1vars, planvars, p2vars, outvars,
                   requests, reader_saw, fnvars, appvars>>

\* lines 382-383: the second gather returns, the third is called
LeaveGatherHist(r) ==
    /\ pc[r] = "in_gather_hist"
    /\ gather_ready(r, "in_gather_hist")
    /\ pc' = [pc EXCEPT ![r] = "in_gather_fc"]
    /\ UNCHANGED <<inputvars, exit_status, p1vars, planvars, p2vars, outvars,
                   requests, reader_saw, fnvars, appvars>>

\* lines 383-385: the third gather returns; the other ranks fall off main()
LeaveGatherFc(r) ==
    /\ pc[r] = "in_gather_fc"
    /\ gather_ready(r, "in_gather_fc")
    /\ IF writes_snapshot(r)
       THEN /\ pc' = [pc EXCEPT ![r] = "assemble"]
            /\ UNCHANGED exit_status
       ELSE /\ pc' = [pc EXCEPT ![r] = "done"]
            /\ exit_status' = [exit_status EXCEPT ![r] = Some(0)]
    /\ UNCHANGED <<inputvars, p1vars, planvars, p2vars, outvars, requests,
                   reader_saw, fnvars, appvars>>

\* lines 386-523: ensure_data_dir_exists(), then the snapshot is assembled
Assemble(r) ==
    /\ pc[r] = "assemble"
    /\ data_dir' = TRUE
    /\ fs_log' = IF data_dir THEN fs_log
                 ELSE Append(fs_log, [rank |-> r, op |-> "makedirs"])
    /\ out_obj' = Some(assemble(flat_current, local_hist_results,
                                local_fc_results, Len(Get(districts[r])), size))
    /\ pc' = [pc EXCEPT ![r] = "open"]
    /\ UNCHANGED <<inputvars, exit_status, p1vars, planvars, p2vars, file,
                   requests, reader_saw, fnvars, appvars>>

\* line 525: open(OUTPUT_PATH, "w") truncates the file in place
OpenOutput(r) ==
    /\ pc[r] = "open"
    /\ file' = [state |-> "partial", doc |-> None]
    /\ fs_log' = Append(fs_log, [rank |-> r, op |-> "open_w"])
    /\ pc' = [pc EXCEPT ![r] = "dump"]
    /\ UNCHANGED <<inputvars, exit_status, p1vars, planvars, p2vars, out_obj,
                   data_dir, requests, reader_saw, fnvars, appvars>>

\* lines 526-528: json.dump writes the document, the with block closes the
\* file, main() returns
DumpAndClose(r) ==
    /\ pc[r] = "dump"
    /\ file' = [state |-> "new", doc |-> out_obj]
    /\ fs_log' = Append(fs_log, [rank |-> r, op |-> "dump"])
    /\ pc' = [pc EXCEPT ![r] = "done"]
    /\ exit_status' = [exit_status EXCEPT ![r] = Some(0)]
    /\ UNCHANGED <<inputvars, p1vars, planvars, p2vars, out_obj, data_dir,
                   requests, reader_saw, fnvars, appvars>>

Next ==
    \E r \in Ranks :
        \/ Start(r)
        \/ LeaveBcast(r)
        \/ FetchCurrent(r)
        \/ EnterGatherCurrent(r)
        \/ RootPlan(r)
        \/ WorkerLeaveGatherCurrent(r)
        \/ LeaveScatterHist(r)
        \/ LeaveScatterFc(r)
        \/ FetchHist(r)
        \/ FetchForecast(r)
        \/ EnterGatherHist(r)
        \/ LeaveGatherHist(r)
        \/ LeaveGatherFc(r)
        \/ Assemble(r)
        \/ OpenOutput(r)
        \/ DumpAndClose(r)

Spec == Init /\ [][Next]_vars

\* The steps of the process of rank r.  mpiexec starts every rank as a process
\* of its own, no step of main() waits for anything but a collective, and
\* every fetch has a timeout (15 s at line 49, 20 s at lines 147 and 161), so
\* a rank whose next step is possible takes it in the end.
RankStep(r) ==
    /\ r \in Ranks
    /\ \/ Start(r)
       \/ LeaveBcast(r)
       \/ FetchCurrent(r)
       \/ EnterGatherCurrent(r)
       \/ RootPlan(r)
       \/ WorkerLeaveGatherCurrent(r)
       \/ LeaveScatterHist(r)
       \/ LeaveScatterFc(r)
       \/ FetchHist(r)
       \/ FetchForecast(r)
       \/ EnterGatherHist(r)
       \/ LeaveGatherHist(r)
       \/ LeaveGatherFc(r)
       \/ Assemble(r)
       \/ OpenOutput(r)
       \/ DumpAndClose(r)

SpecLive ==
    Init /\ [][Next]_vars /\ \A r \in 0..(MaxP - 1) : WF_vars(RankStep(r))

\* ------------------------------------------- the reader of OUTPUT_PATH
\* app.py lines 71-76: api_data answers 503 when the file does not exist and
\* otherwise parses whatever the file holds at that moment; it never takes
\* _refresh_lock.
ApiDataRead ==
    /\ reader_saw' = IF file.state = "absent" THEN "503" ELSE file.state
    /\ UNCHANGED <<inputvars, pc, exit_status, p1vars, planvars, p2vars, outvars,
                   requests, fnvars, appvars>>

ServeNext == Next \/ ApiDataRead

SpecServe == Init /\ [][ServeNext]_vars

\* ------------------------------------------------- the web server (app.py)
\* Requests are handled by one thread each in one server process; a data
\* request that finds the output stale starts one more thread, _bg_refresh.
\* The fetch job is the mpiexec child of run_mpi_fetch; of the job the server
\* sees what rank 0 does to DATA_DIR and OUTPUT_PATH (mpi_fetch.py lines 386
\* and 525-526) and the child's exit.  The snapshot a job writes is named
\* here by the thread that ran the job.
Requests == 1..MaxRequests
Handler(i) == <<"h", i>>
Background(i) == <<"bg", i>>
Threads == {Handler(i) : i \in Requests} \cup {Background(i) : i \in Requests}

AppInit ==
    /\ req_kind \in [Requests -> {"data", "refresh"}]
    /\ thread_pc = [x \in Threads |-> "not_started"]
    /\ response = [i \in Requests |-> None]
    /\ refresh_lock = None
    /\ api_key \in BOOLEAN
    /\ \/ data_dir = FALSE /\ file = [state |-> "absent", doc |-> None]
       \/ data_dir = TRUE /\ file = [state |-> "old", doc |-> Some(<<"old", 0>>)]
    /\ fs_log = <<>>
    /\ reader_saw = "nothing"
    /\ size = 1 /\ DISTRICTS = <<>>
    /\ hist_script = [d \in HistDays |-> "raise"]
    /\ pc = [r \in 0..0 |-> "start"]
    /\ exit_status = [r \in 0..0 |-> None]
    /\ districts = [r \in 0..0 |-> None]
    /\ local_slice = [r \in 0..0 |-> <<>>]
    /\ local_current = [r \in 0..0 |-> <<>>]
    /\ flat_current = <<>> /\ history_tasks = <<>> /\ forecast_tasks = <<>>
    /\ chunks_hist = None /\ chunks_fc = None
    /\ local_hist_tasks = [r \in 0..0 |-> <<>>]
    /\ local_fc_tasks = [r \in 0..0 |-> <<>>]
    /\ local_hist_results = [r \in 0..0 |-> <<>>]
    /\ local_fc_results = [r \in 0..0 |-> <<>>]
    /\ fc_done = [r \in 0..0 |-> 0]
    /\ out_obj = None
    /\ requests = [current |-> 0, hist |-> 0, fc |-> 0]
    /\ FnIdle

\* what the server's actions leave alone of the run and of the drivers
jobvars == <<inputvars, pc, exit_status, p1vars, planvars, p2vars, out_obj,
             requests, reader_saw, fnvars>>

\* lines 24-36: no file, a file that does not parse, or no last_updated in
\* it: stale; otherwise the clock decides
is_data_stale ==
    IF file.state \in {"absent", "partial"} THEN {TRUE} ELSE BOOLEAN

\* lines 60-69: a request arrives; GET /api/data evaluates is_data_stale()
\* and starts the _bg_refresh thread when it is true
ApiDataStale(i) ==
    /\ req_kind[i] = "data"
    /\ thread_pc[Handler(i)] = "not_started"
    /\ \E stale \in is_data_stale :
          thread_pc' = [thread_pc EXCEPT
                          ![Handler(i)] = "exists_check",
                          ![Background(i)] = IF stale THEN "acquire" ELSE @]
    /\ UNCHANGED <<req_kind, response, refresh_lock, data_dir, file, fs_log,
                   jobvars>>

\* lines 71-72: 503 when OUTPUT_PATH does not exist
ApiDataExists(i) ==
    /\ thread_pc[Handler(i)] = "exists_check"
    /\ IF file.state = "absent"
       THEN /\ response' = [response EXCEPT ![i] = Some([status |-> 503, data |-> None])]
            /\ thread_pc' = [thread_pc EXCEPT ![Handler(i)] = "done"]
       ELSE /\ thread_pc' = [thread_pc EXCEPT ![Handler(i)] = "read"]
            /\ UNCHANGED response
    /\ UNCHANGED <<req_kind, refresh_lock, data_dir, file, fs_log, jobvars>>

\* lines 74-76: open and json.load; a file that is being written does not
\* parse, json.load raises, nothing catches it and Flask answers 500
ApiDataLoad(i) ==
    /\ thread_pc[Handler(i)] = "read"
    /\ response' = [response EXCEPT ![i] =
          IF file.state = "partial"
          THEN Some([status |-> 500, data |-> None])
          ELSE Some([status |-> 200, data |-> file.doc])]
    /\ thread_pc' = [thread_pc EXCEPT ![Handler(i)] = "done"]
    /\ UNCHANGED <<req_kind, refresh_lock, data_dir, file, fs_log, jobvars>>

\* lines 79-82: a POST /api/refresh arrives and goes for the lock
ApiRefreshArrive(i) ==
    /\ req_kind[i] = "refresh"
    /\ thread_pc[Handler(i)] = "not_started"
    /\ thread_pc' = [thread_pc EXCEPT ![Handler(i)] = "acquire"]
    /\ UNCHANGED <<req_kind, response, refresh_lock, data_dir, file, fs_log,
                   jobvars>>

\* threading.Lock.acquire() of lines 64 and 82 returns when the lock is free
lock_is_free == refresh_lock = None

\* lines 64 and 82: with _refresh_lock
Acquire(x) ==
    /\ thread_pc[x] = "acquire"
    /\ lock_is_free
    /\ refresh_lock' = Some(x)
    /\ thread_pc' = [thread_pc EXCEPT ![x] = "run_mpi_fetch"]
    /\ UNCHANGED <<req_kind, response, data_dir, file, fs_log, jobvars>>

\* the with block is left: the lock is released by the thread that holds it
Release(x) == IF refresh_lock = Some(x) THEN None ELSE refresh_lock

\* the answer of api_refresh when run_mpi_fetch raised (lines 89-92); the
\* except of _bg_refresh (lines 67-68) answers nobody
Failed(x) ==
    IF x[1] = "h"
    THEN [response EXCEPT ![x[2]] = Some([status |-> 500, data |-> None])]
    ELSE response

\* lines 39-51: RuntimeError without the key; otherwise subprocess.run starts
\* mpiexec, which may fail to start or exit non-zero before it wrote anything
RunMpiFetch(x) ==
    /\ thread_pc[x] = "run_mpi_fetch"
    /\ \E started \in (IF api_key THEN BOOLEAN ELSE {FALSE}) :
          IF started
          THEN /\ thread_pc' = [thread_pc EXCEPT ![x] = "job_open"]
               /\ UNCHANGED <<response, refresh_lock>>
          ELSE /\ thread_pc' = [thread_pc EXCEPT ![x] = "done"]
               /\ response' = Failed(x)
               /\ refresh_lock' = Release(x)
    /\ UNCHANGED <<req_kind, data_dir, file, fs_log, jobvars>>

\* the job, mpi_fetch.py lines 386 and 525: rank 0 makes DATA_DIR and opens
\* OUTPUT_PATH for writing
JobOpen(x) ==
    /\ thread_pc[x] = "job_open"
    /\ data_dir' = TRUE
    /\ file' = [state |-> "partial", doc |-> None]
    /\ fs_log' = Append(fs_log, [rank |-> 0, op |-> "open_w", job |-> x])
    /\ thread_pc' = [thread_pc EXCEPT ![x] = "job_dump"]
    /\ UNCHANGED <<req_kind, response, refresh_lock, jobvars>>

\* the job, mpi_fetch.py line 526: json.dump, the file is closed
JobDump(x) ==
    /\ thread_pc[x] = "job_dump"
    /\ file' = [state |-> "new", doc |-> Some(x)]
    /\ fs_log' = Append(fs_log, [rank |-> 0, op |-> "dump", job |-> x])
    /\ thread_pc' = [thread_pc EXCEPT ![x] = "job_exit"]
    /\ UNCHANGED <<req_kind, response, refresh_lock, data_dir, jobvars>>

\* subprocess.run returns.  _bg_refresh is over (line 66); api_refresh reads
\* the file and answers (lines 86-88), with 500 from the except of line 91
\* when the file does not parse.  Either leaves the with block.
JobExit(x) ==
    /\ thread_pc[x] = "job_exit"
    /\ thread_pc' = [thread_pc EXCEPT ![x] = "done"]
    /\ response' = IF x[1] # "h" THEN response
                   ELSE IF file.state = "partial" THEN Failed(x)
                   ELSE [response EXCEPT ![x[2]] =
                           Some([status |-> 200, data |-> file.doc])]
    /\ refresh_lock' = Release(x)
    /\ UNCHANGED <<req_kind, data_dir, file, fs_log, jobvars>>

ThreadStep(x) ==
    \/ Acquire(x)
    \/ RunMpiFetch(x)
    \/ JobOpen(x)
    \/ JobDump(x)
    \/ JobExit(x)

ApiDataStep(i) ==
    \/ ApiDataStale(i)
    \/ ApiDataExists(i)
    \/ ApiDataLoad(i)

AppNext ==
    \/ \E i \in Requests : ApiDataStep(i) \/ ApiRefreshArrive(i)
    \/ \E x \in Threads : ThreadStep(x)

SpecApp == AppInit /\ [][AppNext]_vars

\* ============================================================ drivers
\* The two pure helpers are exercised on their own, over inputs larger than
\* the ones the full run reaches.
TotalInputs == (0..MaxTotal) \cup {38}
TaskAtoms == {"a", "b"}

PartInit ==
    /\ p_total \in TotalInputs
    /\ p_parts \in 1..MaxParts
    /\ p_slices = <<>>
    /\ s_tasks = <<>> /\ s_workers = 1 /\ s_chunks = None
    /\ RunIdle /\ AppIdle

\* rank `i` executes line 198
PartCall(i) ==
    /\ i \notin DOMAIN p_slices
    /\ p_slices' = (i :> partition_indices(p_total, p_parts, i)) @@ p_slices
    /\ UNCHANGED <<p_total, p_parts, s_tasks, s_workers, s_chunks, runvars, appvars>>

PartNext == \E i \in 0..(p_parts - 1) : PartCall(i)

SpecPartition == PartInit /\ [][PartNext]_vars

SplitInit ==
    /\ s_tasks \in SeqsUpTo(TaskAtoms, MaxTasks)
    /\ s_workers \in 1..MaxWorkers
    /\ s_chunks = None
    /\ p_total = 0 /\ p_parts = 1 /\ p_slices = <<>>
    /\ RunIdle /\ AppIdle

SplitCall ==
    /\ s_chunks = None
    /\ s_chunks' = split_tasks(s_tasks, s_workers)
    /\ UNCHANGED <<p_total, p_parts, p_slices, s_tasks, s_workers, runvars, appvars>>

SplitNext == SplitCall

SpecSplit == SplitInit /\ [][SplitNext]_vars

\* ============================================================== claims

SliceSize(sl) == sl[2] - sl[1]
AllSlicesKnown == DOMAIN p_slices = 0..(p_parts - 1)

\* C1: for every total >= 0 and workers >= 1 the slices of ranks
\* 0..workers-1 are ordered, contiguous and pairwise disjoint, cover exactly
\* [0, total), have size floor(total/workers) or that plus one, the longer
\* ones being exactly the first (total mod workers) ranks; empty slices when
\* workers > total or total = 0; sizes 8,8,8,7,7 for 38 items on 5 workers.
C1_PartitionBalanced ==
    /\ \A i \in DOMAIN p_slices :
        /\ 0 <= p_slices[i][1] /\ p_slices[i][1] <= p_slices[i][2]
        /\ p_slices[i][2] <= p_total
        /\ SliceSize(p_slices[i]) =
             (p_total \div p_parts) + (IF i < p_total % p_parts THEN 1 ELSE 0)
        /\ (i = 0) => p_slices[i][1] = 0
        /\ (i = p_parts - 1) => p_slices[i][2] = p_total
        /\ \A j \in DOMAIN p_slices :
             (j = i + 1) => p_slices[j][1] = p_slices[i][2]
    /\ AllSlicesKnown =>
        \A x \in 0..(p_total - 1) :
            Cardinality({i \in 0..(p_parts - 1) :
                p_slices[i][1] <= x /\ x < p_slices[i][2]}) = 1
    /\ (AllSlicesKnown /\ p_total = 38 /\ p_parts = 5) =>
        [i \in 0..4 |-> SliceSize(p_slices[i])] =
            (0 :> 8 @@ 1 :> 8 @@ 2 :> 8 @@ 3 :> 7 @@ 4 :> 7)

\* the 38-on-5 case with every rank's slice computed
C1_Witness ==
    /\ AllSlicesKnown /\ p_total = 38 /\ p_parts = 5
    /\ SliceSize(p_slices[2]) = 8 /\ SliceSize(p_slices[3]) = 7

\* more workers than items: a rank holds an empty slice
C1_WitnessEmpty ==
    /\ AllSlicesKnown /\ p_parts > p_total /\ p_total > 0
    /\ SliceSize(p_slices[p_parts - 1]) = 0

\* C2: split_tasks returns exactly `workers` lists, the task at list index i
\* is in list (i mod workers), every task is in exactly one list, and any two
\* lists differ in size by at most 1.
IndicesOf(k, n, w) == {i \in 0..(n - 1) : i % w = k}

C2_RoundRobin ==
    (s_chunks # None) =>
        /\ DOMAIN s_chunks = 0..(s_workers - 1)
        /\ \A i \in 0..(Len(s_tasks) - 1) :
              /\ (i \div s_workers) + 1 <= Len(s_chunks[i % s_workers])
              /\ s_chunks[i % s_workers][(i \div s_workers) + 1] = s_tasks[i + 1]
        /\ \A k \in 0..(s_workers - 1) :
              Len(s_chunks[k]) =
                 Cardinality(IndicesOf(k, Len(s_tasks), s_workers))
        /\ \A j, k \in 0..(s_workers - 1) :
              Len(s_chunks[j]) - Len(s_chunks[k]) <= 1

C2_Witness ==
    /\ s_chunks # None /\ s_workers = 3 /\ Len(s_tasks) = 4
    /\ Len(s_chunks[0]) = 2 /\ Len(s_chunks[2]) = 1

\* ------------------------------------------------ the snapshot of a run
Completed == file.state = "new"
Snapshot == Get(file.doc)
RegistryNames == {DISTRICTS[i].district : i \in 1..Len(DISTRICTS)}

MetricFields == {"temperature_c", "humidity_pct", "wind_speed_ms", "rainfall_mm"}
AllMetricsNull(rec) == \A f \in MetricFields : PyGet(rec, f) = None
CurrentFailed(entry) == PyGet(entry.current, "error") # None

\* C3: the districts list of the snapshot of a completed run holds exactly
\* one entry per location of the registry, whichever fetches failed.
C3_OneEntryPerLocation ==
    Completed =>
        LET ds == Snapshot.districts
        IN  /\ Len(ds) = Len(DISTRICTS)
            /\ \A d \in RegistryNames :
                 Cardinality({j \in 1..Len(ds) : ds[j].district = d}) = 1
            /\ \A j \in 1..Len(ds) : ds[j].district \in RegistryNames

\* two ranks, two locations, the current fetch of one of them failed and a
\* history fetch of the other failed
C3_Witness ==
    /\ Completed /\ size = 2 /\ Len(DISTRICTS) = 2
    /\ \E i, j \in 1..Len(Snapshot.districts) :
         /\ CurrentFailed(Snapshot.districts[i])
         /\ ~CurrentFailed(Snapshot.districts[j])
         /\ Snapshot.districts[j].coord # None
         /\ Snapshot.districts[j].history[1].error = Some(FetchError)

\* C4: every location entry of the snapshot holds exactly one history record
\* for each of the 7 past dates and exactly one forecast record for each of
\* the 7 future dates, with or without coordinates, failed phase-two fetches
\* or a forecast body of fewer than 7 days.
OnePerDate(recs, dates) ==
    /\ Len(recs) = Len(dates)
    /\ \A k \in 1..Len(dates) :
         Cardinality({i \in 1..Len(recs) : recs[i].date = dates[k]}) = 1

C4_SevenPlusSeven ==
    Completed =>
        \A j \in 1..Len(Snapshot.districts) :
            /\ OnePerDate(Snapshot.districts[j].history, list_past_days(NumDays))
            /\ OnePerDate(Snapshot.districts[j].forecast, list_next_days(NumDays))
            /\ Len(Snapshot.districts[j].history) = 7
            /\ Len(Snapshot.districts[j].forecast) = 7

\* one location without coordinates, another whose forecast body held fewer
\* days than requested (padded with null metrics, no error)
C4_Witness ==
    /\ Completed
    /\ \E i, j \in 1..Len(Snapshot.districts) :
         /\ Snapshot.districts[i].coord = None
         /\ Snapshot.districts[j].coord # None
         /\ Snapshot.districts[j].forecast[1].temperature_c # None
         /\ AllMetricsNull(Snapshot.districts[j].forecast[NumDays])
         /\ Snapshot.districts[j].forecast[NumDays].error = None

\* C5 as stated: a location whose current-weather fetch failed has
\* coord = null, and each of its 14 history and forecast records has all four
\* metrics null and error exactly "missing coordinates from current weather
\* phase".
FailedLocationRecords(msg) ==
    Completed =>
        \A j \in 1..Len(Snapshot.districts) :
            CurrentFailed(Snapshot.districts[j]) =>
                LET e == Snapshot.districts[j]
                    recs == e.history \o e.forecast
                IN  /\ e.coord = None
                    /\ Len(recs) = 2 * NumDays
                    /\ \A k \in 1..Len(recs) :
                         /\ AllMetricsNull(recs[k])
                         /\ recs[k].error = Some(msg)

C5_AsStated ==
    FailedLocationRecords("missing coordinates from current weather phase")

\* C5, amended: ... and error exactly "Missing coordinates from current
\* weather phase", with a capital M.
C5_MissingCoordinates ==
    FailedLocationRecords("Missing coordinates from current weather phase")

C5_Witness ==
    /\ Completed
    /\ \E j \in 1..Len(Snapshot.districts) :
         /\ CurrentFailed(Snapshot.districts[j])
         /\ Len(Snapshot.districts[j].history) = NumDays
         /\ Snapshot.districts[j].forecast[1].error = Some(MissingCoordMsg)

\* C6: a failing fetch never aborts the rest of a slice: in each phase a rank
\* emits the records of every item of its slice, in order; the record of an
\* item whose fetch failed has all four metrics null and an error string,
\* and the records of the other items are what those items' responses give.
CurrentGood(rec, item) ==
    \E p \in CurrentPayloads(item.query) :
        /\ \A f \in MetricFields :
             rec.current[f] = extract_current_metrics_and_coord(p).metrics[f]
        /\ rec.coord = extract_current_metrics_and_coord(p).coord

C6_Current(r) ==
    /\ Len(local_current[r]) <= Len(local_slice[r])
    /\ Reached(r, "in_gather_cur") => Len(local_current[r]) = Len(local_slice[r])
    /\ \A k \in 1..Len(local_current[r]) :
         LET rec == local_current[r][k]
             item == local_slice[r][k]
         IN  /\ rec.district = item.district
             /\ IF PyGet(rec.current, "error") # None
                THEN AllMetricsNull(rec.current) /\ rec.coord = None
                ELSE CurrentGood(rec, item)

C6_History(r) ==
    /\ Len(local_hist_results[r]) <= Len(local_hist_tasks[r])
    /\ Reached(r, "in_gather_hist") =>
         Len(local_hist_results[r]) = Len(local_hist_tasks[r])
    /\ \A k \in 1..Len(local_hist_results[r]) :
         LET rec == local_hist_results[r][k]
             t == local_hist_tasks[r][k]
         IN  /\ rec.district = t.district /\ rec.date_iso = t.date_iso
             /\ (TaskHasCoord(t) /\ hist_script[t.dt] = "raise") =>
                    /\ AllMetricsNull(rec)
                    /\ PyGet(rec, "error") = Some(FetchError)
             /\ (TaskHasCoord(t) /\ hist_script[t.dt] = "empty") =>
                    PyGet(rec, "error") = None

C6_Forecast(r) ==
    /\ Len(local_fc_results[r]) = NumDays * fc_done[r]
    /\ fc_done[r] <= Len(local_fc_tasks[r])
    /\ Reached(r, "in_gather_hist") => fc_done[r] = Len(local_fc_tasks[r])
    /\ \A j \in 1..fc_done[r] : \A i \in 1..NumDays :
         LET rec == local_fc_results[r][(j - 1) * NumDays + i]
             t == local_fc_tasks[r][j]
         IN  /\ rec.district = t.district /\ rec.date_iso = t.date_isos[i]
             /\ PyGet(rec, "error") # None => AllMetricsNull(rec)
             /\ (PyGet(rec, "error") = None /\ i <= 2) =>
                    rec.temperature_c = NormalizeDaily(DailyPayload(i)).temperature_c

C6_FailureIsContained ==
    \A r \in Ranks : C6_Current(r) /\ C6_History(r) /\ C6_Forecast(r)

\* one rank, two items: the first current fetch failed, the second did not;
\* the same in the historical loop
C6_Witness ==
    /\ size = 1 /\ Len(local_slice[0]) = 2 /\ Reached(0, "in_gather_hist")
    /\ PyGet(local_current[0][1].current, "error") # None
    /\ PyGet(local_current[0][2].current, "error") = None
    /\ local_current[0][2].coord # None
    /\ \E k \in 1..(Len(local_hist_results[0]) - 1) :
         /\ PyGet(local_hist_results[0][k], "error") = Some(FetchError)
         /\ PyGet(local_hist_results[0][k + 1], "error") = None

\* C7: without the credential every rank exits with a non-zero status before
\* it takes part in any collective, no request is issued, and the snapshot
\* file is neither created nor modified.
C7_NoCredential ==
    (~api_key) =>
        /\ \A r \in Ranks :
             /\ pc[r] \in {"start", "exited"}
             /\ pc[r] = "exited" => exit_status[r] # None /\ Get(exit_status[r]) # 0
             /\ pc[r] = "start" => exit_status[r] = None
        /\ requests = [current |-> 0, hist |-> 0, fc |-> 0]
        /\ fs_log = <<>>
        /\ file.state \in {"absent", "old"}
        /\ data_dir = (file.state = "old")

C7_Witness ==
    /\ ~api_key /\ size = 2 /\ Len(DISTRICTS) = 2
    /\ \A r \in Ranks : pc[r] = "exited" /\ exit_status[r] = Some(2)

\* C8: a reader of the output file that runs concurrently with the
\* coordinator's write never observes a partially written file.
C8_AtomicSnapshot == reader_saw # "partial"

\* C9: only rank 0 touches persistent storage, it writes the snapshot at
\* most once per run, and only after all three gathers have completed.
OpsOf(op) == {i \in 1..Len(fs_log) : fs_log[i].op = op}

C9_OnlyCoordinatorWrites ==
    /\ \A i \in 1..Len(fs_log) : fs_log[i].rank = 0
    /\ Cardinality(OpsOf("open_w")) <= 1
    /\ Cardinality(OpsOf("dump")) <= 1
    /\ Cardinality(OpsOf("makedirs")) <= 1
    /\ (fs_log # <<>> \/ file.state \in {"partial", "new"}) =>
         /\ Passed(0, "in_gather_fc")
         /\ \A c \in {"in_gather_cur", "in_gather_hist", "in_gather_fc"} :
              AllHaveCalled(c)
    /\ \A r \in Ranks : (r # 0) => pc[r] \notin {"assemble", "open", "dump"}

C9_Witness ==
    /\ size = 2 /\ pc[0] = "done" /\ pc[1] = "done"
    /\ Len(fs_log) = 3
    /\ fs_log[1].op = "makedirs" /\ fs_log[3].op = "dump"

\* C10 as stated: each of the six collectives is a full barrier: no rank
\* proceeds past a collective until all P ranks have contributed to it.
Collectives ==
    {"in_bcast", "in_gather_cur", "in_scatter_hist", "in_scatter_fc",
     "in_gather_hist", "in_gather_fc"}
RootToAll == {"in_bcast", "in_scatter_hist", "in_scatter_fc"}
AllToRoot == {"in_gather_cur", "in_gather_hist", "in_gather_fc"}

C10_AsStated ==
    \A c \in Collectives : \A w \in Ranks : Passed(w, c) => AllHaveCalled(c)

\* C10, amended: no rank proceeds past the broadcast or a scatter before the
\* coordinator has contributed to it, and the coordinator does not proceed
\* past a gather before all P ranks have contributed to it.
C10_DataDependencies ==
    /\ \A c \in RootToAll : \A w \in Ranks : Passed(w, c) => RootHasCalled(c)
    /\ \A c \in AllToRoot : Passed(0, c) => AllHaveCalled(c)

\* the coordinator is past the last gather of a run of two ranks
C10_Witness ==
    /\ size = 2 /\ Len(DISTRICTS) = 2
    /\ Passed(0, "in_gather_fc") /\ Passed(1, "in_gather_fc")

\* C11: in every location entry of the snapshot the history list and the
\* forecast list are each in non-decreasing order of date, whatever order
\* the ranks' partial results were gathered in.
NonDecreasing(recs) ==
    \A k \in 1..(Len(recs) - 1) : recs[k].date <= recs[k + 1].date

C11_SortedByDate ==
    Completed =>
        \A j \in 1..Len(Snapshot.districts) :
            /\ NonDecreasing(Snapshot.districts[j].history)
            /\ NonDecreasing(Snapshot.districts[j].forecast)

\* two ranks: the gathered history of a district arrives as rank 0's dates
\* followed by rank 1's, which is not in date order
C11_Witness ==
    /\ Completed /\ size = 2 /\ Len(Snapshot.districts) >= 1
    /\ \E k \in 1..(Len(local_hist_results[0]) - 1) :
         /\ local_hist_results[0][k].district = local_hist_results[1][1].district
         /\ local_hist_results[0][k].date_iso > local_hist_results[1][1].date_iso
    /\ Len(Snapshot.districts[1].history) = NumDays

\* C13: the snapshot's average of each phase and metric field is null when
\* no record of the phase has a value for the field, and otherwise the mean
\* of the non-null values only, rounded to 2 decimals (values are held in
\* hundredths, so: the integer nearest to sum / count);
\* avg([10.0, null, 20.0]) = 15.0 and avg([null, null]) = null.
Present(xs) == {i \in 1..Len(xs) : xs[i] # None}

RECURSIVE SumOver(_, _)
SumOver(S, xs) ==
    IF S = {} THEN 0
    ELSE LET i == CHOOSE j \in S : TRUE
         IN  Get(xs[i]) + SumOver(S \ {i}, xs)

Dist(a, b) == IF a >= b THEN a - b ELSE b - a

IsRoundedMean(a, xs) ==
    IF Present(xs) = {} THEN a = None
    ELSE /\ a # None
         /\ 2 * Dist(Get(a) * Cardinality(Present(xs)), SumOver(Present(xs), xs))
              <= Cardinality(Present(xs))

PhaseRecords(phase) ==
    IF phase = "current"
    THEN [j \in 1..Len(Snapshot.districts) |-> Snapshot.districts[j].current]
    ELSE ConcatField(Snapshot.districts, 1, phase)

FieldValues(recs, f) == [i \in 1..Len(recs) |-> PyGet(recs[i], f)]

C13_Averages ==
    /\ avg(<<Some(1000), None, Some(2000)>>) = Some(1500)
    /\ avg(<<None, None>>) = None
    /\ Completed =>
         \A phase \in {"current", "history", "forecast"} : \A f \in MetricFields :
             IsRoundedMean(Snapshot.averages[phase][f],
                           FieldValues(PhaseRecords(phase), f))

\* a history average that is null, and a forecast average over some values
\* and some nulls that is not a whole number of hundredths
C13_Witness ==
    /\ Completed /\ Len(Snapshot.districts) = 2
    /\ Snapshot.averages.history.temperature_c = None
    /\ LET xs == FieldValues(PhaseRecords("forecast"), "temperature_c")
       IN  /\ Present(xs) # {}
           /\ Cardinality(Present(xs)) < Len(xs)
           /\ SumOver(Present(xs), xs) % Cardinality(Present(xs)) # 0
           /\ Snapshot.averages.forecast.temperature_c # None

\* C14 as stated: the task lists handed to split_tasks hold the locations in
\* registry order and, within a location, the dates ascending, so that the
\* index of a task, and the rank (index mod P) that gets it, follow from the
\* location's position in the registry.
Planned == chunks_hist # None /\ chunks_fc # None

HistIndex(i, k) == (i - 1) * NumDays + k

DatesAscending ==
    /\ \A i \in 1..Len(forecast_tasks) : \A k \in 1..(NumDays - 1) :
          /\ history_tasks[HistIndex(i, k)].date_iso
               < history_tasks[HistIndex(i, k + 1)].date_iso
          /\ history_tasks[HistIndex(i, k)].district
               = history_tasks[HistIndex(i, k + 1)].district
          /\ forecast_tasks[i].date_isos[k] < forecast_tasks[i].date_isos[k + 1]

IndexDecidesRank ==
    /\ \A x \in 1..Len(history_tasks) :
          Get(chunks_hist)[(x - 1) % size][((x - 1) \div size) + 1] = history_tasks[x]
    /\ \A x \in 1..Len(forecast_tasks) :
          Get(chunks_fc)[(x - 1) % size][((x - 1) \div size) + 1] = forecast_tasks[x]

C14_AsStated ==
    Planned =>
        /\ Len(forecast_tasks) = Len(DISTRICTS)
        /\ Len(history_tasks) = NumDays * Len(DISTRICTS)
        /\ \A i \in 1..Len(DISTRICTS) :
              /\ forecast_tasks[i].district = DISTRICTS[i].district
              /\ history_tasks[HistIndex(i, 1)].district = DISTRICTS[i].district
        /\ DatesAscending
        /\ IndexDecidesRank

\* C14 amended: the locations of the task lists are in ascending order of
\* district name (line 241 sorts the gathered records by name before the
\* planner's loop), not in registry order; the rest is as stated.
NameAt(i) ==
    CHOOSE d \in RegistryNames :
        Cardinality({e \in RegistryNames : e < d}) = i - 1

C14_NameOrder ==
    Planned =>
        /\ Len(forecast_tasks) = Len(DISTRICTS)
        /\ Len(history_tasks) = NumDays * Len(DISTRICTS)
        /\ \A i \in 1..Len(DISTRICTS) :
              /\ forecast_tasks[i].district = NameAt(i)
              /\ history_tasks[HistIndex(i, 1)].district = NameAt(i)
        /\ DatesAscending
        /\ IndexDecidesRank

\* a registry that is not in name order, planned and split over two ranks
C14_Witness ==
    /\ Planned /\ size = 2 /\ Len(DISTRICTS) = 2
    /\ DISTRICTS[1].district > DISTRICTS[2].district
    /\ forecast_tasks[1].district = DISTRICTS[2].district
    /\ Get(chunks_fc)[0] = <<forecast_tasks[1]>>

\* C15: one fetch call per work item that has what the call needs and none
\* otherwise: at every moment the current-weather calls are as many as the
\* locations processed, the historical and forecast calls as many as the
\* processed tasks with coordinates; once every rank is through its loops a
\* run over N locations of which K obtained coordinates has issued
\* N current, 7K historical and K forecast calls.
WithCoordinates(t) == t.lat # None /\ t.lon # None

ProcessedLocations ==
    {<<r, i>> \in Ranks \X (1..MaxN) : i <= Len(local_current[r])}

ProcessedHist ==
    {<<r, i>> \in Ranks \X (1..(NumDays * MaxN)) :
        /\ i <= Len(local_hist_results[r])
        /\ WithCoordinates(local_hist_tasks[r][i])}

ProcessedFc ==
    {<<r, i>> \in Ranks \X (1..MaxN) :
        /\ i <= fc_done[r]
        /\ WithCoordinates(local_fc_tasks[r][i])}

ObtainedCoordinates ==
    {i \in 1..Len(flat_current) : flat_current[i].coord # None}

LoopsOver == \A r \in Ranks : Reached(r, "in_gather_hist")

C15_OneRequestPerItem ==
    /\ requests.current = Cardinality(ProcessedLocations)
    /\ requests.hist = Cardinality(ProcessedHist)
    /\ requests.fc = Cardinality(ProcessedFc)
    /\ LoopsOver =>
         /\ requests.current = Len(DISTRICTS)
         /\ requests.hist = NumDays * Cardinality(ObtainedCoordinates)
         /\ requests.fc = Cardinality(ObtainedCoordinates)

\* two locations of which one obtained coordinates: 2 + 7 + 1 calls
C15_Witness ==
    /\ LoopsOver /\ Len(DISTRICTS) = 2
    /\ Cardinality(ObtainedCoordinates) = 1
    /\ requests = [current |-> 2, hist |-> NumDays, fc |-> 1]

\* C16: a historical task with coordinates whose request succeeds with at
\* least one hourly entry yields a record without error, with temperature,
\* humidity and wind aggregates, and with rainfall_mm the sum of the hourly
\* rainfall values that are present.
HourlyRain(dt) == [i \in 1..Len(HourlyItems(dt)) |-> HourlyItems(dt)[i].rain_1h]

C16_HourlyAggregates ==
    \A r \in Ranks : \A i \in 1..Len(local_hist_results[r]) :
        LET t == local_hist_tasks[r][i]
            rec == local_hist_results[r][i]
        IN  (WithCoordinates(t) /\ hist_script[t.dt] = "hourly") =>
                /\ PyGet(rec, "error") = None
                /\ PyGet(rec, "temperature_c") # None
                /\ PyGet(rec, "humidity_pct") # None
                /\ PyGet(rec, "wind_speed_ms") # None
                /\ PyGet(rec, "rainfall_mm")
                     = Some(SumOver(Present(HourlyRain(t.dt)), HourlyRain(t.dt)))

\* C17: every record of the snapshot of a completed run (each entry's
\* current record and each of its history and forecast records) carries a
\* non-null processor_rank in 0..P-1, the rank of the process whose slice or
\* task chunk held the item; no entry is the assembler's placeholder with a
\* null rank.
IsRank(v) == v # None /\ Get(v) \in Ranks

InSliceOf(v, d) ==
    \E i \in 1..Len(local_slice[Get(v)]) : local_slice[Get(v)][i].district = d

InHistChunkOf(v, d, day) ==
    \E i \in 1..Len(local_hist_tasks[Get(v)]) :
        /\ local_hist_tasks[Get(v)][i].district = d
        /\ local_hist_tasks[Get(v)][i].date_iso = day

InFcChunkOf(v, d, day) ==
    \E i \in 1..Len(local_fc_tasks[Get(v)]) :
        /\ local_fc_tasks[Get(v)][i].district = d
        /\ \E k \in 1..Len(local_fc_tasks[Get(v)][i].date_isos) :
              local_fc_tasks[Get(v)][i].date_isos[k] = day

C17_Provenance ==
    Completed =>
        \A j \in 1..Len(Snapshot.districts) :
            LET e == Snapshot.districts[j]
            IN  /\ e.query # None
                /\ IsRank(e.current.processor_rank)
                /\ InSliceOf(e.current.processor_rank, e.district)
                /\ \A k \in 1..Len(e.history) :
                      /\ IsRank(e.history[k].processor_rank)
                      /\ InHistChunkOf(e.history[k].processor_rank, e.district,
                                       e.history[k].date)
                /\ \A k \in 1..Len(e.forecast) :
                      /\ IsRank(e.forecast[k].processor_rank)
                      /\ InFcChunkOf(e.forecast[k].processor_rank, e.district,
                                     e.forecast[k].date)

\* an entry whose records come from both ranks, for a district whose current
\* fetch failed
C17_Witness ==
    /\ Completed /\ size = 2 /\ Len(Snapshot.districts) = 2
    /\ \E j \in 1..2 :
          LET e == Snapshot.districts[j]
          IN  /\ CurrentFailed(e)
              /\ e.current.processor_rank = Some(1)
              /\ \E k \in 1..Len(e.history) : e.history[k].processor_rank = Some(0)
              /\ \E k \in 1..Len(e.history) : e.history[k].processor_rank = Some(1)
              /\ \E k \in 1..Len(e.forecast) : e.forecast[k].processor_rank = Some(0)

\* C18: the workload of the snapshot counts, per phase, the records of each
\* rank: for the current phase the size of the rank's partition slice, for
\* history the size of its history chunk, for forecast 7 times the size of
\* its forecast chunk; the counts of a phase sum to N, 7N and 7N, and a rank
\* without records has no key in the phase's workload.
Workload == Snapshot.meta.workload

BalancedSize(r) ==
    (Len(DISTRICTS) \div size) + (IF r < Len(DISTRICTS) % size THEN 1 ELSE 0)

ExpectedCount(phase, r) ==
    IF phase = "current" THEN BalancedSize(r)
    ELSE IF phase = "history" THEN Len(Get(chunks_hist)[r])
    ELSE NumDays * Len(Get(chunks_fc)[r])

RECURSIVE TotalOf(_, _)
TotalOf(counts, keys) ==
    IF keys = {} THEN 0
    ELSE LET k == CHOOSE x \in keys : TRUE
         IN  counts[k] + TotalOf(counts, keys \ {k})

PhaseTotal(phase) ==
    IF phase = "current" THEN Len(DISTRICTS) ELSE NumDays * Len(DISTRICTS)

C18_Workload ==
    Completed =>
        \A phase \in {"current", "history", "forecast"} :
            /\ DOMAIN Workload[phase]
                 = {Some(r) : r \in {x \in Ranks : ExpectedCount(phase, x) > 0}}
            /\ \A r \in Ranks :
                  /\ ExpectedCount(phase, r) > 0
                       => Workload[phase][Some(r)] = ExpectedCount(phase, r)
                  /\ ExpectedCount("current", r) = Len(local_slice[r])
            /\ TotalOf(Workload[phase], DOMAIN Workload[phase]) = PhaseTotal(phase)

\* one location on two ranks: rank 1 has no current and no forecast record,
\* and three of the seven history records
C18_Witness ==
    /\ Completed /\ size = 2 /\ Len(DISTRICTS) = 1
    /\ DOMAIN Workload.current = {Some(0)}
    /\ DOMAIN Workload.forecast = {Some(0)}
    /\ Workload.forecast[Some(0)] = NumDays
    /\ Workload.history[Some(1)] = 3
    /\ Workload.history[Some(0)] = 4

\* C19: no rank issues a historical or forecast request, or emits a
\* phase-two record, before every rank has finished all current-weather
\* fetches of its slice and the coordinator has derived the task lists from
\* the gathered results; and a rank has received the full registry by
\* broadcast before it issues its first current-weather request.
PhaseTwoBegun ==
    \/ requests.hist > 0 \/ requests.fc > 0
    \/ \E r \in Ranks : local_hist_results[r] # <<>> \/ local_fc_results[r] # <<>>

PhaseOneOver ==
    /\ \A q \in Ranks :
          /\ Reached(q, "in_gather_cur")
          /\ Len(local_slice[q]) = BalancedSize(q)
          /\ Len(local_current[q]) = Len(local_slice[q])
    /\ requests.current = Len(DISTRICTS)

TasksDerived ==
    /\ Planned
    /\ Len(flat_current) = Len(DISTRICTS)
    /\ Len(history_tasks) = NumDays * Len(DISTRICTS)
    /\ Len(forecast_tasks) = Len(DISTRICTS)

C19_PhaseTwoAfterPhaseOne ==
    /\ PhaseTwoBegun => (PhaseOneOver /\ TasksDerived)
    /\ \A r \in Ranks :
          (Reached(r, "phase1") \/ local_current[r] # <<>>)
              => districts[r] = Some(DISTRICTS)

\* rank 0 has issued a phase-two request while rank 1, its slice fetched, has
\* not yet returned from the first scatter
C19_Witness ==
    /\ size = 2 /\ Len(DISTRICTS) = 2
    /\ requests.hist > 0
    /\ local_hist_results[0] # <<>>
    /\ pc[1] = "in_scatter_hist"
    /\ Len(local_current[1]) = 1

\* C20: with the credential present and every fetch call returning or
\* failing in the end, a run never deadlocks: no rank skips one of the six
\* collectives or takes them in another order, every rank terminates, and
\* the coordinator writes the snapshot; this holds for ranks with an empty
\* slice or an empty task chunk as well.
NoCollectiveSkipped ==
    \A r \in Ranks :
        (pc'[r] # pc[r] /\ pc'[r] # "exited") =>
            /\ Idx(pc'[r]) > Idx(pc[r])
            /\ \A c \in Collectives :
                  ~(Idx(pc[r]) < Idx(c) /\ Idx(c) < Idx(pc'[r]))

AllTerminated ==
    /\ \A r \in Ranks : pc[r] = "done" /\ exit_status[r] = Some(0)
    /\ Completed

C20_NoDeadlock ==
    /\ [][NoCollectiveSkipped]_vars
    /\ api_key ~> AllTerminated

\* a finished run of two ranks over one location: rank 1 had an empty slice
\* and an empty forecast chunk
C20_Witness ==
    /\ AllTerminated /\ size = 2 /\ Len(DISTRICTS) = 1
    /\ local_slice[1] = <<>> /\ local_fc_tasks[1] = <<>>
    /\ local_hist_tasks[1] # <<>>

\* C21: in the web server at most one fetch job runs at any time: under any
\* interleaving of data requests that find the output stale and of refresh
\* requests, two invocations of run_mpi_fetch never overlap and two jobs
\* never write the output file concurrently; and a data request never waits
\* for a job: it answers with "not ready" (503) when the output file is
\* missing and with the file's current content otherwise.
InRunMpiFetch ==
    {x \in Threads : thread_pc[x] \in
        {"run_mpi_fetch", "job_open", "job_dump", "job_exit"}}

OneJobAtATime ==
    /\ Cardinality(InRunMpiFetch) <= 1
    /\ \A x \in InRunMpiFetch : refresh_lock = Some(x)

\* every open of the output file is followed by the dump of the same job
WritesDoNotOverlap ==
    \A k \in 1..Len(fs_log) :
        /\ fs_log[k].op = "open_w" =>
              (k = Len(fs_log) \/ fs_log[k + 1] = [fs_log[k] EXCEPT !.op = "dump"])
        /\ fs_log[k].op = "dump" =>
              (k > 1 /\ fs_log[k - 1] = [fs_log[k] EXCEPT !.op = "open_w"])

DataRequests == {i \in Requests : req_kind[i] = "data"}

\* a data request that is not answered yet can take its next step, whoever
\* holds the lock and whatever the job is doing
DataNeverWaits ==
    \A i \in DataRequests :
        thread_pc[Handler(i)] # "done" => ENABLED ApiDataStep(i)

DataAnswersNotReadyOrContent ==
    \A i \in DataRequests :
        response[i] # None =>
            \/ Get(response[i]).status = 503
            \/ Get(response[i]).status = 200 /\ Get(response[i]).data # None

C21_OneJobAndNoWaiting ==
    /\ OneJobAtATime
    /\ WritesDoNotOverlap
    /\ DataNeverWaits
    /\ DataAnswersNotReadyOrContent

====
